---- MODULE Spec2Model ----
(***************************************************************************)
(* userror: printing user-facing diagnostics (info, warn, error, fatal,    *)
(* internal) to standard error, and the flm! location-annotation macro.    *)
(*                                                                         *)
(* Text is a sequence of one-character strings, so that concatenation,     *)
(* prefixes, format placeholders and escape codes are computed and not     *)
(* assumed.  "ESC" stands for the single byte 0x1B, "\n" for a newline.    *)
(***************************************************************************)
EXTENDS Integers, Sequences, FiniteSets, TLC

VARIABLES
    feature,        \* the build's "colour" cargo feature: TRUE = ansi_term colours
    current_exe,    \* what std::env::current_exe() answers in this process
    stderr,         \* the bytes standard error has received so far
    history,        \* one record per call of a public function, in call order
    status,         \* "running", or "panicked" once fatal has panicked
    panic_message,  \* the message of the panic, "" while running
    site,           \* call site of an flm! invocation: [file, line]
    flm_call        \* the flm! invocation made at the site and its value

vars == <<feature, current_exe, stderr, history, status, panic_message, site, flm_call>>

-----------------------------------------------------------------------------
(* Bounds *)

\* number of public-function calls in one run of the process
MaxCalls == 2
\* most bytes a failing write gets onto the stream before it fails
MaxPartial == 1
\* largest line number of an flm! call site
MaxLine == 42

-----------------------------------------------------------------------------
(* Text literals *)

S_info == <<"i", "n", "f", "o">>
S_warning == <<"w", "a", "r", "n", "i", "n", "g">>
S_error == <<"e", "r", "r", "o", "r">>
S_fatal == <<"f", "a", "t", "a", "l">>
S_internal == <<"i", "n", "t", "e", "r", "n", "a", "l">>
S_mytool == <<"m", "y", "t", "o", "o", "l">>
S_disk_full == <<"d", "i", "s", "k", " ", "f", "u", "l", "l">>
S_low_memory == <<"l", "o", "w", " ", "m", "e", "m", "o", "r", "y">>
S_foo_rs == <<"f", "o", "o", ".", "r", "s">>
S_src_main_rs == <<"s", "r", "c", "/", "m", "a", "i", "n", ".", "r", "s">>
S_hello == <<"h", "e", "l", "l", "o">>
S_value_fmt == <<"v", "a", "l", "u", "e", "=", "{", "}">>
S_of_fmt == <<"{", "}", " ", "o", "f", " ", "{", "}">>
S_braces_fmt == <<"{", "{", "{", "}", "}", "}">>
S_two_lines == <<"a", "\n", "b">>

Min(a, b) == IF a < b THEN a ELSE b

-----------------------------------------------------------------------------
(* Colour and Colour::paint *)

Colours == {"Purple", "Blue", "Yellow", "Red"}

\* ansi_term's foreground code of a colour: ESC [ 3x m
ansi_code(c) ==
    CASE c = "Red" -> <<"3", "1">>
      [] c = "Yellow" -> <<"3", "3">>
      [] c = "Blue" -> <<"3", "4">>
      [] c = "Purple" -> <<"3", "5">>

ansi_paint(c, text) ==
    <<"ESC", "[">> \o ansi_code(c) \o <<"m">> \o text \o <<"ESC", "[", "0", "m">>

\* with the feature: ansi_term::Colour::paint; without it: the identity
paint(c, level) ==
    IF feature THEN ansi_paint(c, level) ELSE level

-----------------------------------------------------------------------------
(* io::Result<()> and the environment's answers *)

Ok == [ok |-> TRUE, err |-> ""]
Err(e) == [ok |-> FALSE, err |-> e]

\* std::env::current_exe(): an io::Error, or a path; the path may have no
\* file-name component, or one that is not valid UTF-8
ExeResults ==
    { [ok |-> FALSE, err |-> "NotFound", has_file_name |-> FALSE, utf8 |-> FALSE, name |-> <<>>],
      [ok |-> TRUE, err |-> "", has_file_name |-> FALSE, utf8 |-> FALSE, name |-> <<>>],
      [ok |-> TRUE, err |-> "", has_file_name |-> TRUE, utf8 |-> FALSE, name |-> <<>>],
      [ok |-> TRUE, err |-> "", has_file_name |-> TRUE, utf8 |-> TRUE, name |-> S_mytool] }

\* what one writeln! to io::stderr() meets: success, or an io::Error after n
\* bytes of the line already went out
WriteOutcomes ==
    {[ok |-> TRUE, err |-> "", n |-> 0]}
    \cup {[ok |-> FALSE, err |-> "BrokenPipe", n |-> k] : k \in 0..MaxPartial}

Messages == {S_disk_full, S_low_memory, S_two_lines}

None == [some |-> FALSE, val |-> <<>>]
Some(v) == [some |-> TRUE, val |-> v]

\* program.file_name().and_then(|n| n.to_str())
file_name_to_str(exe) ==
    IF exe.has_file_name /\ exe.utf8 THEN Some(exe.name) ELSE None

-----------------------------------------------------------------------------
(* writeln! and print *)

writeln_no_newline(text, wr) ==
    IF wr.ok
    THEN [res |-> Ok, written |-> text, writes |-> 1]
    ELSE [res |-> Err(wr.err), written |-> SubSeq(text, 1, Min(wr.n, Len(text))), writes |-> 1]

writeln_retry(text, wr) ==
    LET line == text \o <<"\n">>
        part == SubSeq(line, 1, Min(wr.n, Len(line) - 1))
    IN  IF wr.ok
        THEN [res |-> Ok, written |-> line, writes |-> 1]
        ELSE [res |-> Err(wr.err), written |-> part \o part, writes |-> 2]

\* writeln!(io::stderr(), ...): the formatted text and a newline, written once
writeln(text, wr) ==
    LET line == text \o <<"\n">>
    IN  IF wr.ok
        THEN [res |-> Ok, written |-> line, writes |-> 1]
        ELSE [res |-> Err(wr.err),
              written |-> SubSeq(line, 1, Min(wr.n, Len(line) - 1)),
              writes |-> 1]

\* a print that falls back to the prefix-less line when the lookup fails
print_fallback(colour, level, message, exe, wr) ==
    LET program == IF exe.ok THEN file_name_to_str(exe) ELSE None
    IN  IF program.some
        THEN writeln(paint("Blue", program.val) \o <<":">> \o paint(colour, level)
                        \o <<":", " ">> \o message, wr)
        ELSE writeln(paint(colour, level) \o <<":", " ">> \o message, wr)

\* a print with a space after the program name's colon
print_name_space(colour, level, message, exe, wr) ==
    IF ~exe.ok
    THEN [res |-> Err(exe.err), written |-> <<>>, writes |-> 0]
    ELSE LET program == file_name_to_str(exe)
         IN  IF program.some
             THEN writeln(paint("Blue", program.val) \o <<":", " ">> \o paint(colour, level)
                             \o <<":", " ">> \o message, wr)
             ELSE writeln(paint(colour, level) \o <<":", " ">> \o message, wr)

\* a print whose fallback separator is a single space
print_space_fallback(colour, level, message, exe, wr) ==
    IF ~exe.ok
    THEN [res |-> Err(exe.err), written |-> <<>>, writes |-> 0]
    ELSE LET program == file_name_to_str(exe)
         IN  IF program.some
             THEN writeln(paint("Blue", program.val) \o <<":">> \o paint(colour, level)
                             \o <<":", " ">> \o message, wr)
             ELSE writeln(paint(colour, level) \o <<" ">> \o message, wr)

\* a print that names the program only on the first line of the run
print_name_once(colour, level, message, exe, wr) ==
    IF ~exe.ok
    THEN [res |-> Err(exe.err), written |-> <<>>, writes |-> 0]
    ELSE LET program == IF history = <<>> THEN file_name_to_str(exe) ELSE None
         IN  IF program.some
             THEN writeln(paint("Blue", program.val) \o <<":">> \o paint(colour, level)
                             \o <<":", " ">> \o message, wr)
             ELSE writeln(paint(colour, level) \o <<":", " ">> \o message, wr)

\* a print that gives up with an error when the file name is not UTF-8
print_utf8_error(colour, level, message, exe, wr) ==
    IF ~exe.ok \/ (exe.has_file_name /\ ~exe.utf8)
    THEN [res |-> Err(IF exe.ok THEN "InvalidData" ELSE exe.err), written |-> <<>>, writes |-> 0]
    ELSE LET program == file_name_to_str(exe)
         IN  IF program.some
             THEN writeln(paint("Blue", program.val) \o <<":">> \o paint(colour, level)
                             \o <<":", " ">> \o message, wr)
             ELSE writeln(paint(colour, level) \o <<":", " ">> \o message, wr)

\* fn print(colour, level, message) -> io::Result<()>; exe and wr are what
\* current_exe() and the write to stderr answer during this call
print(colour, level, message, exe, wr) ==
    IF ~exe.ok
    THEN [res |-> Err(exe.err), written |-> <<>>, writes |-> 0]
    ELSE LET program == file_name_to_str(exe)
         IN  IF program.some
             THEN writeln(paint("Blue", program.val) \o <<":">> \o paint(colour, level)
                             \o <<":", " ">> \o message, wr)
             ELSE writeln(paint(colour, level) \o <<":", " ">> \o message, wr)

-----------------------------------------------------------------------------
(* The public functions *)

\* the state after a call: the bytes print wrote reach stderr and the call is
\* logged with what it passed to print, what print gave back and how it ended
Called(fn, colour, level, message, wr, r, outcome) ==
    /\ stderr' = stderr \o r.written
    /\ history' = Append(history,
            [fn |-> fn, colour |-> colour, level |-> level, message |-> message,
             exe |-> current_exe, wr |-> wr, res |-> r.res, writes |-> r.writes,
             from |-> Len(stderr), to |-> Len(stderr) + Len(r.written),
             outcome |-> outcome])
    /\ UNCHANGED <<feature, current_exe, site, flm_call>>

CanCall == status = "running" /\ Len(history) < MaxCalls

internal(message) ==
    /\ CanCall
    /\ \E wr \in WriteOutcomes :
          Called("internal", "Red", S_internal, message, wr,
                 print("Red", S_internal, message, current_exe, wr), "returned")
    /\ UNCHANGED <<status, panic_message>>

fatal_propagate(message) ==
    /\ CanCall
    /\ \E wr \in WriteOutcomes :
          LET r == print("Red", S_fatal, message, current_exe, wr)
          IN  /\ Called("fatal", "Red", S_fatal, message, wr, r,
                        IF r.res.ok THEN "panicked" ELSE "returned")
              /\ status' = IF r.res.ok THEN "panicked" ELSE status
              /\ panic_message' = IF r.res.ok THEN "fatal error occurred" ELSE panic_message

\* print(..).expect("failed to write error message"); panic!("fatal error occurred")
fatal(message) ==
    /\ CanCall
    /\ \E wr \in WriteOutcomes :
          LET r == print("Red", S_fatal, message, current_exe, wr)
          IN  /\ Called("fatal", "Red", S_fatal, message, wr, r, "panicked")
              /\ status' = "panicked"
              /\ panic_message' = IF r.res.ok
                                  THEN "fatal error occurred"
                                  ELSE "failed to write error message"

error(message) ==
    /\ CanCall
    /\ \E wr \in WriteOutcomes :
          Called("error", "Red", S_error, message, wr,
                 print("Red", S_error, message, current_exe, wr), "returned")
    /\ UNCHANGED <<status, panic_message>>

warn_red(message) ==
    /\ CanCall
    /\ \E wr \in WriteOutcomes :
          Called("warn", "Red", S_warning, message, wr,
                 print("Red", S_warning, message, current_exe, wr), "returned")
    /\ UNCHANGED <<status, panic_message>>

warn(message) ==
    /\ CanCall
    /\ \E wr \in WriteOutcomes :
          Called("warn", "Yellow", S_warning, message, wr,
                 print("Yellow", S_warning, message, current_exe, wr), "returned")
    /\ UNCHANGED <<status, panic_message>>

info(message) ==
    /\ CanCall
    /\ \E wr \in WriteOutcomes :
          Called("info", "Purple", S_info, message, wr,
                 print("Purple", S_info, message, current_exe, wr), "returned")
    /\ UNCHANGED <<status, panic_message>>

-----------------------------------------------------------------------------
(* flm! *)

Digits == <<"0", "1", "2", "3", "4", "5", "6", "7", "8", "9">>

RECURSIVE to_decimal(_)
\* an integer literal as concat! and Display spell it
to_decimal(n) ==
    IF n < 10 THEN <<Digits[n + 1]>>
    ELSE to_decimal(n \div 10) \o <<Digits[(n % 10) + 1]>>

IntVal(n) == [kind |-> "int", int |-> n, str |-> <<>>]
StrVal(s) == [kind |-> "str", int |-> 0, str |-> s]

\* Display of a format argument
display(v) == IF v.kind = "int" THEN to_decimal(v.int) ELSE v.str

RECURSIVE format_from(_, _, _)
\* format!: copy the template from position i; "{{" and "}}" are literal
\* braces, "{}" is the next positional argument
format_from(t, i, vals) ==
    IF i > Len(t) THEN <<>>
    ELSE IF i < Len(t) /\ t[i] = "{" /\ t[i + 1] = "{"
         THEN <<"{">> \o format_from(t, i + 2, vals)
    ELSE IF i < Len(t) /\ t[i] = "}" /\ t[i + 1] = "}"
         THEN <<"}">> \o format_from(t, i + 2, vals)
    ELSE IF i < Len(t) /\ t[i] = "{" /\ t[i + 1] = "}"
         THEN display(Head(vals)) \o format_from(t, i + 2, Tail(vals))
    ELSE <<t[i]>> \o format_from(t, i + 1, vals)

format(t, vals) == format_from(t, 1, vals)

RECURSIVE placeholders_from(_, _)
\* the number of "{}" placeholders format! counts in a template
placeholders_from(t, i) ==
    IF i > Len(t) THEN 0
    ELSE IF i < Len(t) /\ t[i] = "{" /\ t[i + 1] = "{" THEN placeholders_from(t, i + 2)
    ELSE IF i < Len(t) /\ t[i] = "}" /\ t[i + 1] = "}" THEN placeholders_from(t, i + 2)
    ELSE IF i < Len(t) /\ t[i] = "{" /\ t[i + 1] = "}" THEN 1 + placeholders_from(t, i + 2)
    ELSE placeholders_from(t, i + 1)

Files == {S_foo_rs, S_src_main_rs}
Lines == 1..MaxLine
FlmMessages == {S_hello, S_disk_full, S_value_fmt}
Templates == {S_value_fmt, S_of_fmt, S_braces_fmt}
Values == {IntVal(5), IntVal(12), StrVal(S_hello)}
ArgLists == {<<v>> : v \in Values} \cup {<<v, w>> : v \in Values, w \in Values}

\* the multi-argument invocations that compile: format! rejects an argument
\* count that differs from the template's placeholder count
FormatCalls ==
    {c \in [format : Templates, vals : ArgLists] :
        placeholders_from(c.format, 1) = Len(c.vals)}

NoFlm == [form |-> "none", message |-> <<>>, vals |-> <<>>, value |-> <<>>]

flm_message_no_separator(message) ==
    /\ flm_call.form = "none"
    /\ flm_call' = [form |-> "message", message |-> message, vals |-> <<>>,
                    value |-> site.file \o <<":">> \o to_decimal(site.line) \o message]
    /\ UNCHANGED <<feature, current_exe, stderr, history, status, panic_message, site>>

\* flm!() => concat!(file!(), ":", line!())
flm_empty ==
    /\ flm_call.form = "none"
    /\ flm_call' = [form |-> "empty", message |-> <<>>, vals |-> <<>>,
                    value |-> site.file \o <<":">> \o to_decimal(site.line)]
    /\ UNCHANGED <<feature, current_exe, stderr, history, status, panic_message, site>>

\* flm!($message) => concat!(file!(), ":", line!(), ": ", $message)
flm_message(message) ==
    /\ flm_call.form = "none"
    /\ flm_call' = [form |-> "message", message |-> message, vals |-> <<>>,
                    value |-> site.file \o <<":">> \o to_decimal(site.line)
                                \o <<":", " ">> \o message]
    /\ UNCHANGED <<feature, current_exe, stderr, history, status, panic_message, site>>

\* flm!($format, $val, ...) =>
\*   format!(concat!(file!(), ":", line!(), ": ", $format), $val, ...)
flm_format(c) ==
    /\ flm_call.form = "none"
    /\ flm_call' = [form |-> "format", message |-> c.format, vals |-> c.vals,
                    value |-> format(site.file \o <<":">> \o to_decimal(site.line)
                                        \o <<":", " ">> \o c.format, c.vals)]
    /\ UNCHANGED <<feature, current_exe, stderr, history, status, panic_message, site>>

-----------------------------------------------------------------------------
(* Specifications *)

\* a process of either build, in any environment, before its first call
Init ==
    /\ feature \in BOOLEAN
    /\ current_exe \in ExeResults
    /\ stderr = <<>>
    /\ history = <<>>
    /\ status = "running"
    /\ panic_message = ""
    /\ site = [file |-> S_foo_rs, line |-> 1]
    /\ flm_call = NoFlm

Next ==
    \E message \in Messages :
        \/ info(message)
        \/ warn(message)
        \/ error(message)
        \/ internal(message)
        \/ fatal(message)

Spec == Init /\ [][Next]_vars

\* an flm! call site, before the macro's value is computed
InitFlm ==
    /\ feature = FALSE
    /\ current_exe \in {e \in ExeResults : e.ok /\ e.utf8}
    /\ stderr = <<>>
    /\ history = <<>>
    /\ status = "running"
    /\ panic_message = ""
    /\ site \in [file : Files, line : Lines]
    /\ flm_call = NoFlm

NextFlm ==
    \/ flm_empty
    \/ \E message \in FlmMessages : flm_message(message)
    \/ \E c \in FormatCalls : flm_format(c)

SpecFlm == InitFlm /\ [][NextFlm]_vars

-----------------------------------------------------------------------------
(* Properties *)

Calls == 1..Len(history)
NonFatal == {"info", "warn", "error", "internal"}

\* the bytes call i put on standard error
Out(i) == SubSeq(stderr, history[i].from + 1, history[i].to)

\* the result of the write a call met
WriteResult(h) == IF h.wr.ok THEN Ok ELSE Err(h.wr.err)

Named(h) == h.exe.ok /\ h.exe.has_file_name /\ h.exe.utf8
Unnamed(h) == h.exe.ok /\ ~(h.exe.has_file_name /\ h.exe.utf8)

EndsWith(s, t) ==
    Len(s) >= Len(t) /\ SubSeq(s, Len(s) - Len(t) + 1, Len(s)) = t

NewLines(s) == Cardinality({k \in 1..Len(s) : s[k] = "\n"})

\* the label and the colour each public function is documented to use
LabelOf(fn) ==
    CASE fn = "info" -> S_info
      [] fn = "warn" -> S_warning
      [] fn = "error" -> S_error
      [] fn = "fatal" -> S_fatal
      [] fn = "internal" -> S_internal

ColourOf(fn) ==
    CASE fn = "info" -> "Purple"
      [] fn = "warn" -> "Yellow"
      [] fn \in {"error", "fatal", "internal"} -> "Red"

\* a text as the build shows it in a colour: wrapped in the colour's escape
\* sequence and a reset in a colour build, bare in a plain build
Shown(c, text) ==
    IF feature
    THEN <<"ESC", "[", "3">>
            \o (CASE c = "Red" -> <<"1">> [] c = "Yellow" -> <<"3">>
                  [] c = "Blue" -> <<"4">> [] c = "Purple" -> <<"5">>)
            \o <<"m">> \o text \o <<"ESC", "[", "0", "m">>
    ELSE text

NamedLine(h) ==
    Shown("Blue", h.exe.name) \o <<":">> \o Shown(ColourOf(h.fn), LabelOf(h.fn))
        \o <<":", " ">> \o h.message \o <<"\n">>

FallbackLine(h) ==
    Shown(ColourOf(h.fn), LabelOf(h.fn)) \o <<":", " ">> \o h.message \o <<"\n">>

C2_FatalNeverReturns ==
    \A i \in Calls :
        LET h == history[i]
        IN  h.fn = "fatal" =>
                /\ h.outcome = "panicked"
                /\ status = "panicked"
                /\ panic_message # ""
                /\ i = Len(history)
                /\ (h.exe.ok /\ h.wr.ok) =>
                      /\ EndsWith(Out(i), <<":", " ">> \o h.message \o <<"\n">>)
                      /\ EndsWith(stderr, Out(i))

C2_Witness ==
    \E i \in Calls :
        /\ history[i].fn = "fatal"
        /\ history[i].exe.ok
        /\ ~history[i].wr.ok
        /\ status = "panicked"

\* C3: for info, warn, error and internal a failed write's I/O error is the
\* value returned, the process is not terminated, the write is attempted
\* once and never retried, and a successful write returns Ok.
C3_WriteErrorReturned ==
    /\ \A i \in Calls :
          LET h == history[i]
          IN  h.fn \in NonFatal =>
                  /\ h.outcome = "returned"
                  /\ h.writes <= 1
                  /\ h.exe.ok => h.writes = 1
                  /\ (h.writes = 1 /\ ~h.wr.ok) => h.res = Err(h.wr.err)
                  /\ (h.writes = 1 /\ h.wr.ok) => h.res = Ok
    /\ status = "panicked" => history[Len(history)].fn = "fatal"

C3_Witness ==
    \E i \in Calls :
        /\ history[i].fn \in NonFatal
        /\ history[i].writes = 1
        /\ ~history[i].wr.ok
        /\ history[i].res = Err("BrokenPipe")
        /\ status = "running"

\* what C4 says one call puts on standard error
C4_Line(i) ==
    LET h == history[i]
    IN  /\ EndsWith(Out(i), <<":", " ">> \o h.message \o <<"\n">>)
        /\ NewLines(Out(i)) = 1
        /\ Named(h) => Out(i) = NamedLine(h)

\* C4 as stated: every call of info, warn, error or internal writes exactly
\* one newline-terminated line ending in ": " and the message, and exactly
\* name ":" label ": " message "\n" when the program name is resolved.
C4_Original ==
    \A i \in Calls : history[i].fn \in NonFatal => C4_Line(i)

\* C4 amended: when the executable-path lookup and the write both succeed, a
\* call of info, warn, error or internal appends exactly one newline after
\* ": " and the message (one line when the message has no newline of its
\* own), and exactly name ":" label ": " message "\n" when the program name
\* is resolved.
C4_Amended ==
    \A i \in Calls :
        LET h == history[i]
        IN  (h.fn \in NonFatal /\ h.exe.ok /\ h.wr.ok) =>
                /\ EndsWith(Out(i), <<":", " ">> \o h.message \o <<"\n">>)
                /\ NewLines(Out(i)) = 1 + NewLines(h.message)
                /\ Named(h) => Out(i) = NamedLine(h)

C4_Witness ==
    \E i \in Calls :
        /\ history[i].fn \in NonFatal
        /\ Named(history[i])
        /\ history[i].wr.ok
        /\ NewLines(Out(i)) = 1

\* the call error("disk full") of a plain build of a program named mytool
C5_Case(i) ==
    /\ ~feature
    /\ history[i].fn = "error"
    /\ history[i].message = S_disk_full
    /\ Named(history[i])
    /\ history[i].exe.name = S_mytool
    /\ history[i].wr.ok

\* C5 as stated: plain build, program mytool: error("disk full") writes
\* "mytool: error: disk full\n", with a space after the program name's colon.
C5_Original ==
    \A i \in Calls :
        C5_Case(i) =>
            Out(i) = <<"m", "y", "t", "o", "o", "l", ":", " ", "e", "r", "r", "o", "r",
                       ":", " ", "d", "i", "s", "k", " ", "f", "u", "l", "l", "\n">>

\* C5 amended: plain build, program mytool: error("disk full") writes
\* "mytool:error: disk full\n", with no space after the program name's colon.
C5_Amended ==
    \A i \in Calls :
        C5_Case(i) =>
            Out(i) = <<"m", "y", "t", "o", "o", "l", ":", "e", "r", "r", "o", "r",
                       ":", " ", "d", "i", "s", "k", " ", "f", "u", "l", "l", "\n">>

C5_Witness == \E i \in Calls : C5_Case(i)

\* C6 as stated: plain build, program name not determined: warn("low
\* memory") writes "warning low memory\n", label and message one space apart.
C6_Original ==
    \A i \in Calls :
        LET h == history[i]
        IN  (~feature /\ h.fn = "warn" /\ h.message = S_low_memory /\ ~Named(h) /\ h.wr.ok) =>
                Out(i) = <<"w", "a", "r", "n", "i", "n", "g", " ",
                           "l", "o", "w", " ", "m", "e", "m", "o", "r", "y", "\n">>

\* C6 amended: plain build: when the executable path resolves without a UTF-8
\* file name, warn("low memory") writes "warning: low memory\n", colon and
\* space between label and message; when the lookup fails it writes nothing.
C6_Amended ==
    \A i \in Calls :
        LET h == history[i]
        IN  (~feature /\ h.fn = "warn" /\ h.message = S_low_memory /\ h.wr.ok) =>
                /\ Unnamed(h) =>
                      Out(i) = <<"w", "a", "r", "n", "i", "n", "g", ":", " ",
                                 "l", "o", "w", " ", "m", "e", "m", "o", "r", "y", "\n">>
                /\ ~h.exe.ok => Out(i) = <<>>

C6_Witness ==
    \E i \in Calls :
        /\ ~feature
        /\ history[i].fn = "warn"
        /\ history[i].message = S_low_memory
        /\ Unnamed(history[i])
        /\ history[i].wr.ok
        /\ Out(i) # <<>>

\* C7: each function passes print its own label and colour (info: "info",
\* Purple; warn: "warning", Yellow; error, fatal, internal: their names, all
\* Red); the program name is shown in Blue whatever the severity; the message
\* is written bare; and a plain build shows name and label unchanged.
C7_LabelsAndColours ==
    \A i \in Calls :
        LET h == history[i]
        IN  /\ h.level = LabelOf(h.fn)
            /\ h.colour = ColourOf(h.fn)
            /\ (Named(h) /\ h.wr.ok) => Out(i) = NamedLine(h)
            /\ (Unnamed(h) /\ h.wr.ok) => Out(i) = FallbackLine(h)
            /\ (~feature /\ Named(h) /\ h.wr.ok) =>
                  Out(i) = h.exe.name \o <<":">> \o h.level \o <<":", " ">>
                              \o h.message \o <<"\n">>

C7_Witness ==
    \E i \in Calls :
        /\ feature
        /\ history[i].fn = "warn"
        /\ Named(history[i])
        /\ history[i].wr.ok
        /\ Out(i) = <<"ESC", "[", "3", "4", "m">> \o S_mytool \o <<"ESC", "[", "0", "m", ":">>
                        \o <<"ESC", "[", "3", "3", "m">> \o S_warning
                        \o <<"ESC", "[", "0", "m", ":", " ">> \o history[i].message \o <<"\n">>

RECURSIVE DecimalValue(_)
\* the number a string of decimal digits spells
DecimalValue(d) ==
    IF d = <<>> THEN 0
    ELSE 10 * DecimalValue(SubSeq(d, 1, Len(d) - 1))
            + (CHOOSE k \in 0..9 : Digits[k + 1] = d[Len(d)])

\* file ":" line, the line in decimal without leading zeros
Location ==
    CHOOSE loc \in {site.file \o <<":">> \o d : d \in {to_decimal(n) : n \in Lines}} :
        LET d == SubSeq(loc, Len(site.file) + 2, Len(loc))
        IN  DecimalValue(d) = site.line /\ d[1] # "0"

C9_Stateless ==
    \A i, j \in Calls :
        LET h == history[i]
            g == history[j]
        IN  (h.fn = g.fn /\ h.message = g.message /\ h.exe = g.exe /\ h.wr = g.wr) =>
                /\ Out(i) = Out(j)
                /\ h.res = g.res
                /\ h.outcome = g.outcome

C9_Witness ==
    /\ Len(history) >= 2
    /\ history[1].fn = history[2].fn
    /\ history[1].message = history[2].message
    /\ history[1].wr = history[2].wr
    /\ history[1].wr.ok
    /\ Named(history[1])
    /\ Out(1) = Out(2)
    /\ Out(1) # <<>>

\* C10: the line without the program name is written exactly when the
\* executable path resolves but has no file name or one that is not UTF-8;
\* print then writes label ": " message "\n" and returns the write's result;
\* when the lookup itself fails print returns that error and writes nothing.
C10_Fallback ==
    \A i \in Calls :
        LET h == history[i]
        IN  /\ (Out(i) = FallbackLine(h)) <=> (Unnamed(h) /\ h.wr.ok)
            /\ Unnamed(h) => (h.writes = 1 /\ h.res = WriteResult(h))
            /\ ~h.exe.ok => (h.res = Err(h.exe.err) /\ h.writes = 0 /\ Out(i) = <<>>)

C10_Witness ==
    \E i \in Calls :
        /\ history[i].exe.ok
        /\ history[i].exe.has_file_name
        /\ ~history[i].exe.utf8
        /\ history[i].wr.ok
        /\ Out(i) = FallbackLine(history[i])

====
